---- MODULE Spec2Model ----
(***************************************************************************)
(* Workflow orchestration of the X-Fair personal finance agent.            *)
(*                                                                         *)
(* Three workflows are modelled next to each other:                        *)
(*   - FinancialPlanningWorkflow (core/langgraph_workflow.py), the         *)
(*     compiled LangGraph graph over FinanceState, with its callers        *)
(*     run_async, the /chat endpoint and stream_trace;                     *)
(*   - FinanceWorkflow (core/workflow.py), the graph over                  *)
(*     FinanceAgentState built from the node classes of nodes/;            *)
(*   - SimplifiedFinanceWorkflow (core/simple_workflow.py) behind          *)
(*     FinanceAgent.process_query;                                         *)
(* and IntentClassifierNode.__call__ called on its own.                    *)
(*                                                                         *)
(* A compiled graph runs in supersteps: every node scheduled for the step  *)
(* is invoked on the channel values (lists and dicts are shared with the   *)
(* channels, not copied), then the values the nodes returned are merged    *)
(* into the channels: a field annotated with operator.add gets             *)
(* old + returned, every other field takes the returned value and accepts  *)
(* one writer per step only.                                               *)
(*                                                                         *)
(* Confidences are counted in tenths (0.1 = 1): the rule phase adds        *)
(* multiples of 0.1 and every comparison of the code (0.5, 0.6, 0.7, the   *)
(* model's confidence) falls the same way on the tenths as on the floats.  *)
(***************************************************************************)
EXTENDS Integers, Sequences, FiniteSets, TLC

\* ------------------------------------------------------------------------
\* Bounds of the model
\* ------------------------------------------------------------------------
MaxMsgs == 1        \* conversation turns a caller passes in `messages`
MaxMatched == 2     \* trigger phrases one query matches

\* ------------------------------------------------------------------------
\* FinancialPlanningWorkflow: nodes, edges, stages
\* ------------------------------------------------------------------------
END == "END"

WorkflowStage == {"started", "mvp", "intermediate", "advanced"}

FPWNodes ==
  {"system_stage_router", "onboarding_node", "store_consent_profile",
   "intent_classifier", "statement_parser", "budget_analyzer", "goal_planner",
   "task_decomposer", "reasoning_engine", "rag_knowledge_retriever",
   "ml_models", "finance_tools", "action_executor", "dashboard_generator",
   "notification_sender", "feedback_collector", "continuous_learning"}

\* add_edge(a, b): the unconditional edges, in the order of the source
FPWEdges ==
  {<<"onboarding_node", "store_consent_profile">>,
   <<"store_consent_profile", "intent_classifier">>,
   <<"intent_classifier", "statement_parser">>,
   <<"statement_parser", "budget_analyzer">>,
   <<"budget_analyzer", "goal_planner">>,
   <<"goal_planner", "dashboard_generator">>,
   <<"rag_knowledge_retriever", "reasoning_engine">>,
   <<"reasoning_engine", "finance_tools">>,
   <<"finance_tools", "notification_sender">>,
   <<"task_decomposer", "reasoning_engine">>,
   <<"reasoning_engine", "ml_models">>,
   <<"ml_models", "action_executor">>,
   <<"dashboard_generator", "feedback_collector">>,
   <<"notification_sender", "feedback_collector">>,
   <<"continuous_learning", END>>,
   <<"feedback_collector", END>>}

\* add_conditional_edges("system_stage_router", _route_by_stage, {...})
StageTargets ==
  [l \in WorkflowStage |->
     CASE l = "started" -> "onboarding_node"
       [] l = "mvp" -> "intent_classifier"
       [] l = "intermediate" -> "rag_knowledge_retriever"
       [] OTHER -> "task_decomposer"]

\* add_conditional_edges("action_executor", _check_execution_decision, {...})
ExecutionTargets ==
  [l \in {"execute", "suggestions_only"} |->
     IF l = "execute" THEN "continuous_learning" ELSE "feedback_collector"]

_route_by_stage(s) == s.current_stage

_check_execution_decision(s) ==
  IF s.execute_action THEN "execute" ELSE "suggestions_only"

\* ------------------------------------------------------------------------
\* Small helpers on the values of the State
\* ------------------------------------------------------------------------
None == "None"

Put(f, k, v) == [x \in (DOMAIN f) \cup {k} |-> IF x = k THEN v ELSE f[x]]

EmptyMap == [x \in {} |-> None]

IsPrefix(a, b) == /\ Len(a) <= Len(b)
                  /\ \A i \in 1..Len(a) : a[i] = b[i]

\* the caller's context: context.get("experience_level", "beginner"), and
\* whether json.dumps(context) works on what else the caller put into it
Experience == {"absent", "beginner", "intermediate", "advanced"}
ContextExtra == {"none", "unserializable"}

ContextEmpty(in) == in.experience = "absent" /\ in.extra = "none"

\* answers of the chat completion (GroqClient.chat): the content the API
\* returned, possibly empty, or the apology chat() returns on any exception
ChatAnswers == {"advice", "", "I'm sorry, I encountered an unexpected error."}

\* intents GroqClient._classify_intent derives from the query
GroqIntents == {"budget_analysis", "general_inquiry"}

\* ------------------------------------------------------------------------
\* FinancialPlanningWorkflow: the node handlers.  A handler mutates the state
\* it is given (state["tools_used"].append(...) works on the list of the
\* channel itself) and returns that same state.
\* ------------------------------------------------------------------------

\* state["tools_used"].append(n); state["explanations"].append({"step": n, ...})
Record(s, n) == [s EXCEPT !.tools_used = Append(@, n),
                          !.explanations = Append(@, n)]

\* a variant that looks at the profile before it looks at the consent
_system_stage_router_profile_first(s) ==
  [Record(s, "system_stage_router") EXCEPT !.current_stage =
     IF ~s.profile_complete THEN "mvp"
     ELSE IF ~s.consent_given THEN "started"
     ELSE IF s.experience = "advanced" THEN "advanced"
     ELSE IF s.experience = "intermediate" THEN "intermediate"
     ELSE "mvp"]

\* a variant that keeps a stage the caller supplied
_system_stage_router_keeping_stage(s) ==
  [Record(s, "system_stage_router") EXCEPT !.current_stage =
     IF s.current_stage # "started" THEN s.current_stage
     ELSE IF ~s.consent_given THEN "started"
     ELSE IF ~s.profile_complete THEN "mvp"
     ELSE IF s.experience = "advanced" THEN "advanced"
     ELSE IF s.experience = "intermediate" THEN "intermediate"
     ELSE "mvp"]

\* if not consent_given: started; elif not profile_complete: mvp; else by
\* context.get("experience_level", "beginner")
_system_stage_router(s) ==
  [Record(s, "system_stage_router") EXCEPT !.current_stage =
     IF ~s.consent_given THEN "started"
     ELSE IF ~s.profile_complete THEN "mvp"
     ELSE IF s.experience = "advanced" THEN "advanced"
     ELSE IF s.experience = "intermediate" THEN "intermediate"
     ELSE "mvp"]

_onboarding_node(s) ==
  [Record(s, "onboarding_node") EXCEPT !.analysis_results =
     Put(@, "onboarding", "guidance")]

\* a handler that assigns a fresh list instead of appending to the list
_store_consent_profile_resetting(s) ==
  [s EXCEPT !.tools_used = <<"store_consent_profile">>,
            !.consent_given = TRUE,
            !.analysis_results = Put(@, "profile_status", "consent_stored")]

\* a handler that stores its status under the key of the onboarding node
_store_consent_profile_overwriting(s) ==
  [s EXCEPT !.tools_used = Append(@, "store_consent_profile"),
            !.consent_given = TRUE,
            !.analysis_results = Put(@, "onboarding", "consent_stored")]

\* no explanations entry here, and consent is marked as given
_store_consent_profile(s) ==
  [s EXCEPT !.tools_used = Append(@, "store_consent_profile"),
            !.consent_given = TRUE,
            !.analysis_results = Put(@, "profile_status", "consent_stored")]

\* groq_client.analyze_financial_query builds json.dumps(context) for a
\* non-empty context before anything is caught
analyze_financial_query_raises(s) ==
  ~ContextEmpty(s) /\ s.extra = "unserializable"

_intent_classifier(s, gi) ==
  [Record(s, "intent_classifier") EXCEPT !.intent = gi,
     !.analysis_results = Put(@, "intent_analysis", gi)]

_statement_parser(s) ==
  [Record(s, "statement_parser") EXCEPT !.analysis_results =
     Put(@, "parsed_statements", "ready_for_upload")]

_budget_analyzer(s) ==
  [Record(s, "budget_analyzer") EXCEPT !.analysis_results =
     Put(@, "budget_analysis", "recommendations")]

_goal_planner(s) ==
  [Record(s, "goal_planner") EXCEPT !.analysis_results =
     Put(@, "goal_planning", "suggested_goals")]

_task_decomposer(s) ==
  [Record(s, "task_decomposer") EXCEPT !.analysis_results =
     Put(@, "task_decomposition", "plan")]

_reasoning_engine(s) ==
  [Record(s, "reasoning_engine") EXCEPT !.analysis_results =
     Put(@, "advanced_reasoning", "analysis")]

_rag_knowledge_retriever(s) ==
  [Record(s, "rag_knowledge_retriever") EXCEPT !.analysis_results =
     Put(@, "knowledge_base", "tax_docs_and_faqs")]

_ml_models(s) ==
  [Record(s, "ml_models") EXCEPT !.analysis_results =
     Put(@, "ml_analysis", "forecast")]

_finance_tools(s) ==
  [Record(s, "finance_tools") EXCEPT !.analysis_results =
     Put(@, "finance_tools",
         IF s.intent = "budget_analysis" THEN "budget_manager" ELSE "no_tool")]

\* a variant that leaves the execute_action of the caller in place
_action_executor_keeping_flag(s) ==
  [Record(s, "action_executor") EXCEPT
     !.analysis_results = Put(@, "execution",
        IF s.current_stage = "advanced" THEN "execute_with_2fa"
        ELSE "suggestions_only")]

\* execute_action is overwritten from the stage, whatever the caller passed
_action_executor(s) ==
  [Record(s, "action_executor") EXCEPT
     !.execute_action = (s.current_stage = "advanced"),
     !.analysis_results = Put(@, "execution",
        IF s.current_stage = "advanced" THEN "execute_with_2fa"
        ELSE "suggestions_only")]

_dashboard_generator(s) ==
  [Record(s, "dashboard_generator") EXCEPT !.analysis_results =
     Put(@, "dashboard", "report_generated")]

_notification_sender(s) ==
  [Record(s, "notification_sender") EXCEPT !.analysis_results =
     Put(@, "notifications", "sent")]

\* the only handler that assigns state["response"]
_feedback_collector(s, ans) ==
  [Record(s, "feedback_collector") EXCEPT !.response = ans,
     !.next_action =
        IF s.current_stage = "started" THEN "Complete your profile setup"
        ELSE IF s.current_stage = "mvp" THEN "Review budget recommendations"
        ELSE "Implement suggested strategies"]

_continuous_learning(s) ==
  [Record(s, "continuous_learning") EXCEPT !.analysis_results =
     Put(@, "learning", "feedback_logged")]

\* workflow.add_node(name, handler)
FPWHandler(n, s, gi, ans) ==
  CASE n = "system_stage_router" -> _system_stage_router(s)
    [] n = "onboarding_node" -> _onboarding_node(s)
    [] n = "store_consent_profile" -> _store_consent_profile(s)
    [] n = "intent_classifier" -> _intent_classifier(s, gi)
    [] n = "statement_parser" -> _statement_parser(s)
    [] n = "budget_analyzer" -> _budget_analyzer(s)
    [] n = "goal_planner" -> _goal_planner(s)
    [] n = "task_decomposer" -> _task_decomposer(s)
    [] n = "reasoning_engine" -> _reasoning_engine(s)
    [] n = "rag_knowledge_retriever" -> _rag_knowledge_retriever(s)
    [] n = "ml_models" -> _ml_models(s)
    [] n = "finance_tools" -> _finance_tools(s)
    [] n = "action_executor" -> _action_executor(s)
    [] n = "dashboard_generator" -> _dashboard_generator(s)
    [] n = "notification_sender" -> _notification_sender(s)
    [] n = "feedback_collector" -> _feedback_collector(s, ans)
    [] OTHER -> _continuous_learning(s)

\* the nodes a finished node schedules for the next superstep
FPWSuccessors(n, s) ==
  IF n = "system_stage_router" THEN {StageTargets[_route_by_stage(s)]}
  ELSE IF n = "action_executor"
       THEN {ExecutionTargets[_check_execution_decision(s)]}
  ELSE {e[2] : e \in {d \in FPWEdges : d[1] = n}}

\* tools_used, messages and explanations are Annotated[..., operator.add]:
\* the channel becomes (its value) + (the value the node returned), and both
\* are the list the node appended to
FinanceStateReducers(s) ==
  [s EXCEPT !.tools_used = s.tools_used \o s.tools_used,
            !.messages = s.messages \o s.messages,
            !.explanations = s.explanations \o s.explanations]

\* ------------------------------------------------------------------------
\* Queries.  A query is modelled by the phrases of QueryVocab it is made of;
\* a keyword of the code matches when it is a substring of the query.
\* ------------------------------------------------------------------------
QueryVocab ==
  {"help", "statement", "transaction", "budget", "spending",
   "emergency fund", "plan", "optimize", "track spending and expenses",
   "plan to save for a future retirement, a vacation, a house and a car: my goal and target"}

\* the keywords of the code that occur inside a phrase of the vocabulary
SubKeywords(p) ==
  CASE p = "spending" -> {"spending", "spend"}
    [] p = "transaction" -> {"transaction", "action"}
    [] p = "emergency fund" -> {"emergency fund", "emergency"}
    [] p = "track spending and expenses" ->
         {"track", "spending", "spend", "expenses"}
    [] p = "plan to save for a future retirement, a vacation, a house and a car: my goal and target" ->
         {"plan", "save", "future", "retirement", "vacation", "house", "car",
          "goal", "target"}
    [] OTHER -> {p}

Queries ==
  {[empty |-> TRUE, kws |-> {}]} \cup
  {[empty |-> FALSE, kws |-> k] :
     k \in {x \in SUBSET QueryVocab : Cardinality(x) <= MaxMatched}}

Matched(q) == UNION {SubKeywords(p) : p \in q.kws}

\* len(keyword.split())
WordCount(k) ==
  IF k \in {"emergency fund", "investment news", "how to", "ai prediction"}
  THEN 2 ELSE 1

\* ------------------------------------------------------------------------
\* IntentClassifierNode
\* ------------------------------------------------------------------------
\* FinancialIntent: member name -> value
FinancialIntent ==
  [n \in {"BUDGETING", "GOAL_PLANNING", "BASIC_INSIGHTS", "TAX_ANALYSIS",
          "MARKET_DATA", "PORTFOLIO_TRACKING", "TASK_DECOMPOSITION",
          "ML_FORECASTING", "PORTFOLIO_OPTIMIZATION", "AUTOMATED_EXECUTION",
          "ONBOARDING", "GENERAL_QUERY", "UNKNOWN"} |->
     CASE n = "BUDGETING" -> "budgeting"
       [] n = "GOAL_PLANNING" -> "goal_planning"
       [] n = "BASIC_INSIGHTS" -> "basic_insights"
       [] n = "TAX_ANALYSIS" -> "tax_analysis"
       [] n = "MARKET_DATA" -> "market_data"
       [] n = "PORTFOLIO_TRACKING" -> "portfolio_tracking"
       [] n = "TASK_DECOMPOSITION" -> "task_decomposition"
       [] n = "ML_FORECASTING" -> "ml_forecasting"
       [] n = "PORTFOLIO_OPTIMIZATION" -> "portfolio_optimization"
       [] n = "AUTOMATED_EXECUTION" -> "automated_execution"
       [] n = "ONBOARDING" -> "onboarding"
       [] n = "GENERAL_QUERY" -> "general_query"
       [] OTHER -> "unknown"]

\* self.intent_keywords, in the order of the dict
IntentOrder ==
  <<"BUDGETING", "GOAL_PLANNING", "BASIC_INSIGHTS", "TAX_ANALYSIS",
    "MARKET_DATA", "PORTFOLIO_TRACKING", "TASK_DECOMPOSITION",
    "ML_FORECASTING", "PORTFOLIO_OPTIMIZATION", "AUTOMATED_EXECUTION">>

intent_keywords(n) ==
  CASE n = "BUDGETING" ->
         {"budget", "spending", "expenses", "spend", "money", "cost",
          "allocation", "track", "limit", "allowance"}
    [] n = "GOAL_PLANNING" ->
         {"goal", "save", "target", "plan", "future", "retirement",
          "emergency fund", "vacation", "house", "car"}
    [] n = "BASIC_INSIGHTS" ->
         {"analyze", "insight", "report", "summary", "overview", "health",
          "score", "trend", "pattern"}
    [] n = "TAX_ANALYSIS" ->
         {"tax", "deduction", "irs", "refund", "filing", "1099", "w2",
          "write-off", "itemize"}
    [] n = "MARKET_DATA" ->
         {"market", "stock", "price", "nasdaq", "dow", "s&p", "crypto",
          "bitcoin", "investment news"}
    [] n = "PORTFOLIO_TRACKING" ->
         {"portfolio", "investment", "return", "performance", "asset",
          "allocation", "diversification", "roi"}
    [] n = "TASK_DECOMPOSITION" ->
         {"plan", "strategy", "step", "roadmap", "process", "how to",
          "guide", "walkthrough"}
    [] n = "ML_FORECASTING" ->
         {"predict", "forecast", "future", "projection", "trend",
          "estimate", "model", "ai prediction"}
    [] n = "PORTFOLIO_OPTIMIZATION" ->
         {"optimize", "rebalance", "best", "improve", "maximize",
          "efficient", "allocate", "adjust"}
    [] OTHER ->
         {"execute", "buy", "sell", "trade", "transfer", "automate",
          "action", "implement"}

RECURSIVE SumWords(_)
SumWords(ks) ==
  IF ks = {} THEN 0
  ELSE LET k == CHOOSE x \in ks : TRUE
       IN WordCount(k) + SumWords(ks \ {k})

\* score of one intent, in tenths
IntentScore(n, q) == SumWords(intent_keywords(n) \cap Matched(q))

Min(a, b) == IF a <= b THEN a ELSE b

\* a variant that leaves out min(score, 1.0)
_classify_with_rules_uncapped(q) ==
  LET scored == {i \in 1..Len(IntentOrder) : IntentScore(IntentOrder[i], q) > 0}
  IN IF scored = {} THEN [intent |-> "GENERAL_QUERY", confidence |-> 3]
     ELSE LET best == CHOOSE i \in scored :
                        \A j \in scored :
                           IntentScore(IntentOrder[j], q)
                             <= IntentScore(IntentOrder[i], q)
          IN [intent |-> IntentOrder[best],
              confidence |-> IntentScore(IntentOrder[best], q)]

\* max(intent_scores.items(), key=...)[0]: the first intent of the dict among
\* those with the highest score
_classify_with_rules(q) ==
  LET scored == {i \in 1..Len(IntentOrder) : IntentScore(IntentOrder[i], q) > 0}
  IN IF scored = {} THEN [intent |-> "GENERAL_QUERY", confidence |-> 3]
     ELSE LET best == CHOOSE i \in scored :
                        \A j \in scored :
                           \/ IntentScore(IntentOrder[j], q)
                                < IntentScore(IntentOrder[i], q)
                           \/ /\ IntentScore(IntentOrder[j], q)
                                   = IntentScore(IntentOrder[i], q)
                              /\ i <= j
          IN [intent |-> IntentOrder[best],
              confidence |-> Min(IntentScore(IntentOrder[best], q), 10)]

\* answers of the model collaborator (self.llm.invoke): it raises, answers
\* text that is no JSON, JSON that is no object, or an object with an intent
\* name and a confidence (a number in tenths, or something that is no number)
LLMAnswers ==
  {[kind |-> k, intent |-> "UNKNOWN", numeric |-> TRUE, conf |-> 0] :
     k \in {"raise", "not_json", "not_dict"}} \cup
  {[kind |-> "dict", intent |-> n, numeric |-> b, conf |-> c] :
     n \in {"TASK_DECOMPOSITION", "BOGUS"}, b \in {TRUE},
     c \in {0 - 1, 3, 8, 15}} \cup
  {[kind |-> "dict", intent |-> "TASK_DECOMPOSITION", numeric |-> FALSE,
    conf |-> 0]}

\* a variant that hands the confidence of the model on as it came
_classify_with_llm_unvalidated(a) ==
  IF a.kind \in {"raise", "not_json", "not_dict"}
  THEN [intent |-> "UNKNOWN", confidence |-> 0, logs |-> <<"error">>]
  ELSE [intent |-> IF a.intent \in DOMAIN FinancialIntent THEN a.intent
                   ELSE "UNKNOWN",
        confidence |-> a.conf, logs |-> <<>>]

\* what _classify_with_llm returns, and the log entries it writes
_classify_with_llm(a) ==
  IF a.kind = "raise"
  THEN [intent |-> "UNKNOWN", confidence |-> 0, logs |-> <<"error">>]
  ELSE IF a.kind \in {"not_json", "not_dict"}
  THEN [intent |-> "UNKNOWN", confidence |-> 0, logs |-> <<"error">>]
  ELSE LET conf == IF ~a.numeric THEN 0
                   ELSE IF a.conf >= 0 /\ a.conf <= 10 THEN a.conf ELSE 0
           conflog == IF ~a.numeric THEN <<"error">>
                      ELSE IF a.conf >= 0 /\ a.conf <= 10 THEN <<>>
                      ELSE <<"warning">>
       IN IF a.intent \in DOMAIN FinancialIntent
          THEN [intent |-> a.intent, confidence |-> conf, logs |-> conflog]
          ELSE [intent |-> "UNKNOWN", confidence |-> 0,
                logs |-> conflog \o <<"warning">>]

\* user_profile.email.endswith("@example.com")
_is_demo_user(s) == s.has_profile /\ s.demo_email

\* confidence_threshold = 0.5 if is_demo_user else 0.7
confidence_threshold(s) == IF _is_demo_user(s) THEN 5 ELSE 7

\* a variant that also asks the model when the threshold is met exactly
Escalates_at_threshold(confidence, threshold) == confidence <= threshold

\* if confidence < confidence_threshold: the model is asked
Escalates(confidence, threshold) == confidence < threshold

\* a variant that also adopts the result of the model on equal confidence
Adopts_on_ties(llm_confidence, confidence) == llm_confidence >= confidence

\* if llm_confidence > confidence: the result of the model replaces the
\* result of the rule phase
Adopts(llm_confidence, confidence) == llm_confidence > confidence

\* the local variables of a call that did not get as far as the rule phase
NoClassification ==
  [classified |-> FALSE, rule |-> [intent |-> "UNKNOWN", confidence |-> 0],
   threshold |-> 0, invoked |-> FALSE,
   llm |-> [intent |-> "UNKNOWN", confidence |-> 0], method |-> None]

\* __call__: the state it returns, the log entries it writes, whether an
\* exception leaves the call, and its local variables (the result of the rule
\* phase, confidence_threshold, whether and with what result the model was
\* asked, classification_method).  The intent is written as the string value of
\* the enum member (intent_enum = FALSE).
IntentClassifierNode(s, q, a) ==
  IF ~s.is_dict
  THEN \* ValueError inside the try; the handler then assigns state["intent"]
       \* on an object that is no dict, and that raises inside the handler
       [s |-> s, logs |-> <<"error">>, raised |-> TRUE,
        trace |-> NoClassification]
  ELSE IF q.empty
  THEN [s |-> [s EXCEPT !.intent = "unknown", !.intent_enum = FALSE,
                        !.confidence_score = 0,
                        !.error_message = "Empty query provided"],
        logs |-> <<"warning">>, raised |-> FALSE, trace |-> NoClassification]
  ELSE
    LET threshold == confidence_threshold(s)
        rule == _classify_with_rules(q)
        escalate == Escalates(rule.confidence, threshold)
        llm == _classify_with_llm(a)
        adopt == escalate /\ Adopts(llm.confidence, rule.confidence)
        intent == IF adopt THEN llm.intent ELSE rule.intent
        confidence == IF adopt THEN llm.confidence ELSE rule.confidence
        method == IF adopt THEN "llm" ELSE "rule_based"
        llmlogs == IF escalate THEN llm.logs ELSE <<>>
        written == [s EXCEPT !.intent = FinancialIntent[intent],
                             !.intent_enum = FALSE,
                             !.confidence_score = confidence,
                             !.tools_used = @ \o <<"intent_classifier">>,
                             !.current_node = "intent_classifier"]
        \* current_context.update(...) on a context that is None, or
        \* json.dumps of an enum member in _log_potential_misclassification
        failure ==
          IF s.context_kind = "None" THEN "context"
          ELSE IF confidence < threshold /\ ~s.stage_json THEN "json"
          ELSE "none"
        trace == [classified |-> TRUE, rule |-> rule, threshold |-> threshold,
                  invoked |-> escalate,
                  llm |-> IF escalate
                          THEN [intent |-> llm.intent,
                                confidence |-> llm.confidence]
                          ELSE [intent |-> "UNKNOWN", confidence |-> 0],
                  method |-> method]
        failed == [written EXCEPT !.intent = "unknown",
                                  !.confidence_score = 0,
                                  !.error_message = "classification error",
                                  !.classification_method =
                                     IF failure = "json" THEN method ELSE @]
    IN IF failure = "context"
       THEN [s |-> failed,
             logs |-> <<"info">> \o llmlogs \o <<"error", "error">>,
             raised |-> FALSE, trace |-> trace]
       ELSE IF failure = "json"
       THEN [s |-> failed,
             logs |-> <<"info">> \o llmlogs
                        \o <<"classification", "error", "error">>,
             raised |-> FALSE, trace |-> trace]
       ELSE [s |-> [written EXCEPT !.classification_method = method],
             logs |-> <<"info">> \o llmlogs \o <<"classification">>
                        \o (IF confidence < threshold
                            THEN <<"misclassification">> ELSE <<>>),
             raised |-> FALSE, trace |-> trace]

\* ------------------------------------------------------------------------
\* FinanceWorkflow (core/workflow.py) and its node classes
\* ------------------------------------------------------------------------
FWNodes ==
  {"determine_stage", "onboarding", "intent_classifier", "statement_parser",
   "budget_analyzer", "goal_planner", "rag_knowledge",
   "reasoning_engine_intermediate", "reasoning_engine_advanced",
   "task_decomposer", "ml_models", "action_executor", "generate_response"}

FWEdges ==
  {<<"onboarding", "generate_response">>,
   <<"statement_parser", "budget_analyzer">>,
   <<"budget_analyzer", "goal_planner">>,
   <<"goal_planner", "generate_response">>,
   <<"rag_knowledge", "reasoning_engine_intermediate">>,
   <<"reasoning_engine_intermediate", "generate_response">>,
   <<"task_decomposer", "reasoning_engine_advanced">>,
   <<"reasoning_engine_advanced", "ml_models">>,
   <<"action_executor", "generate_response">>,
   <<"generate_response", END>>}

OnboardingKeywords == {"start", "begin", "help", "new", "register"}
StatementKeywords ==
  {"statement", "csv", "data", "upload", "file", "transaction", "bank"}

determine_stage(s) ==
  [s EXCEPT
     !.system_stage =
        IF ~s.has_profile \/ ~s.profile_consent THEN "STARTED"
        ELSE IF s.user_stage = "NEW" THEN "MVP"
        ELSE IF s.has_transactions THEN "INTERMEDIATE"
        ELSE "ADVANCED",
     !.current_node =
        IF ~s.has_profile \/ ~s.profile_consent THEN "onboarding"
        ELSE "intent_classifier"]

\* a variant that returns the value of the stage also for STARTED
route_by_stage_value(s) ==
  IF s.system_stage = "STARTED" THEN "started"
  ELSE IF s.system_stage = "MVP" THEN "mvp"
  ELSE IF s.system_stage = "INTERMEDIATE" THEN "intermediate"
  ELSE "advanced"

route_by_stage(s) ==
  IF s.system_stage = "STARTED" THEN "onboarding"
  ELSE IF s.system_stage = "MVP" THEN "mvp"
  ELSE IF s.system_stage = "INTERMEDIATE" THEN "intermediate"
  ELSE "advanced"

\* the state holds the string value of the intent after the classifier, so
\* a comparison with a member of the enum is true only for a member
route_by_intent_and_stage(s) ==
  IF s.confidence_score < 6 THEN "generate_response"
  ELSE IF s.system_stage = "MVP"
  THEN IF s.intent_enum /\ s.intent \in {"budgeting", "basic_insights"}
       THEN "statement_parser"
       ELSE IF s.intent_enum /\ s.intent = "goal_planning"
       THEN "goal_planner"
       ELSE "budget_analyzer"
  ELSE IF s.system_stage = "INTERMEDIATE"
  THEN IF s.intent_enum /\ s.intent \in {"tax_analysis", "market_data"}
       THEN "rag_knowledge"
       ELSE "reasoning_engine_intermediate"
  ELSE IF s.system_stage = "ADVANCED"
  THEN IF s.intent_enum /\ s.intent = "task_decomposition"
       THEN "task_decomposer"
       ELSE "reasoning_engine_advanced"
  ELSE "generate_response"

should_execute_actions(s) ==
  IF s.has_profile /\ s.profile_consent /\ s.system_stage = "ADVANCED"
  THEN "action_executor" ELSE "generate_response"

\* the node classes of nodes/: the state each returns

OnboardingNode(s, q) ==
  LET asked == Matched(q) \cap OnboardingKeywords # {}
  IN [s EXCEPT !.intent = IF asked THEN "onboarding" ELSE "general_query",
               !.intent_enum = TRUE,
               !.confidence_score = IF asked THEN 9 ELSE 7,
               !.profile_consent = IF asked THEN TRUE ELSE @,
               !.user_stage = IF asked THEN "ONBOARDED" ELSE @,
               !.tools_used = <<"onboarding">>,
               !.response = IF asked THEN "Welcome" ELSE "Hi",
               !.current_node = "onboarding"]

StatementParserNode(s, q) ==
  IF Matched(q) \cap StatementKeywords # {}
  THEN [s EXCEPT !.has_transactions = TRUE,
                 !.tools_used = @ \o <<"statement_parser">>,
                 !.analysis_results = Put(@, "statement_analysis", "parsed"),
                 !.current_node = "statement_parser"]
  ELSE [s EXCEPT !.analysis_results = Put(@, "statement_note", "no data"),
                 !.current_node = "statement_parser"]

BudgetAnalyzerNode(s) ==
  [s EXCEPT !.analysis_results =
              IF s.has_transactions
              THEN Put(Put(@, "budget_analysis", "analysis"),
                       "budget_insights", "insights")
              ELSE Put(@, "budget_analysis", "sample"),
            !.tools_used = @ \o <<"budget_analyzer">>,
            !.current_node = "budget_analyzer"]

GoalKeywords ==
  {"goal", "save", "target", "plan", "retirement", "emergency", "vacation"}

GoalPlannerNode(s, q) ==
  [s EXCEPT !.analysis_results =
              IF Matched(q) \cap GoalKeywords # {}
              THEN Put(Put(@, "goals_analysis", "goals"),
                       "goal_recommendations", "recommendations")
              ELSE Put(@, "goals_analysis", "general"),
            !.tools_used = @ \o <<"goal_planner">>,
            !.current_node = "goal_planner"]

RAGKnowledgeNode(s) ==
  [s EXCEPT !.analysis_results = Put(@, "knowledge_retrieval", "documents"),
            !.tools_used = @ \o <<"rag_knowledge">>,
            !.current_node = "rag_knowledge"]

\* without analysis results the node stores a fallback and returns early
ReasoningEngineNode(s) ==
  IF DOMAIN s.analysis_results = {}
  THEN [s EXCEPT !.analysis_results = Put(@, "reasoning_analysis", "fallback")]
  ELSE [s EXCEPT !.analysis_results =
                   Put(@, "reasoning_analysis",
                       IF s.system_stage = "INTERMEDIATE" THEN "intermediate"
                       ELSE "advanced"),
                 !.tools_used = @ \o <<"reasoning_engine">>,
                 !.current_node = "reasoning_engine"]

TaskDecomposerNode(s) ==
  [s EXCEPT !.analysis_results = Put(@, "task_decomposition", "plan"),
            !.tools_used = @ \o <<"task_decomposer">>,
            !.current_node = "task_decomposer"]

\* the query asks for "rebalance", "optimize" or "allocate": ml_results holds
\* "portfolio_optimization"; otherwise other models or the default analysis
OptimizationKeywords == {"rebalance", "optimize", "allocate"}

MLModelsNode(s, q) ==
  [s EXCEPT !.analysis_results =
              Put(@, "ml_analysis",
                  IF Matched(q) \cap OptimizationKeywords # {}
                  THEN "portfolio_optimization" ELSE "models"),
            !.tools_used = @ \o <<"ml_models">>,
            !.current_node = "ml_models"]

\* self.enabled_actions
ActionTypes ==
  {"portfolio_rebalancing", "bill_payments", "savings_transfers",
   "investment_purchases", "notifications", "report_generation"}

enabled_actions ==
  [t \in ActionTypes |-> t \in {"notifications", "report_generation"}]

\* _identify_available_actions: the types of the actions, in the order they
\* are appended (a budget analysis with an alert and with expenses, goals
\* with a critical goal, a decomposition with a critical task)
_identify_available_actions(ar) ==
  (IF "budget_analysis" \in DOMAIN ar
   THEN <<"notifications", "savings_transfers">> ELSE <<>>)
  \o (IF "goals_analysis" \in DOMAIN ar
      THEN <<"savings_transfers">> ELSE <<>>)
  \o (IF "ml_analysis" \in DOMAIN ar
         /\ ar["ml_analysis"] = "portfolio_optimization"
      THEN <<"portfolio_rebalancing">> ELSE <<>>)
  \o (IF "task_decomposition" \in DOMAIN ar
      THEN <<"notifications">> ELSE <<>>)
  \o <<"report_generation">>

\* a variant that reports a simulated transfer as completed
_execute_action_completing(type, fails) ==
  [type |-> type,
   status |-> IF fails THEN "failed"
              ELSE IF type \in {"notifications", "report_generation",
                                "savings_transfers"}
              THEN "completed"
              ELSE IF type = "portfolio_rebalancing" THEN "simulated"
              ELSE "not_supported"]

\* _execute_action: the result of one action; fails when the helper that
\* computes the details raises
_execute_action(type, fails) ==
  [type |-> type,
   status |-> IF type \in {"notifications", "report_generation"}
              THEN (IF fails THEN "failed" ELSE "completed")
              ELSE IF type \in {"savings_transfers", "portfolio_rebalancing"}
              THEN (IF fails THEN "failed" ELSE "simulated")
              ELSE "not_supported"]

RECURSIVE ExecuteEnabled(_)
ExecuteEnabled(types) ==
  IF types = <<>> THEN <<>>
  ELSE (IF Head(types) \in ActionTypes /\ enabled_actions[Head(types)]
        THEN <<_execute_action(Head(types), FALSE)>> ELSE <<>>)
       \o ExecuteEnabled(Tail(types))

RECURSIVE SuggestDisabled(_)
SuggestDisabled(types) ==
  IF types = <<>> THEN <<>>
  ELSE (IF Head(types) \in ActionTypes /\ enabled_actions[Head(types)]
        THEN <<>> ELSE <<Head(types)>>)
       \o SuggestDisabled(Tail(types))

\* __call__: without consent only "consent_required" is stored; otherwise
\* the enabled actions are executed and the others suggested
ActionExecutorNode(s) ==
  IF ~s.has_profile \/ ~s.profile_consent
  THEN [s EXCEPT !.analysis_results =
                   Put(@, "action_execution", "consent_required")]
  ELSE LET available == _identify_available_actions(s.analysis_results)
       IN [s EXCEPT !.analysis_results =
                      Put(@, "action_execution", "executed"),
                    !.executed_actions = ExecuteEnabled(available),
                    !.suggested_actions = SuggestDisabled(available),
                    !.tools_used = @ \o <<"action_executor">>,
                    !.current_node = "action_executor"]

\* self.groq_llm.invoke(...) answers with a content or raises ("raise")
generate_response(s, ans) ==
  IF ans = "raise"
  THEN [s EXCEPT !.response = "I apologize, but I encountered an error",
                 !.error_message = "llm error"]
  ELSE [s EXCEPT !.response = ans, !.current_node = "generate_response"]

\* workflow.add_node(name, node): the state the node returns, the log
\* entries it writes and whether an exception leaves it
FWHandler(n, s, q, a, ans) ==
  CASE n = "determine_stage" ->
         [s |-> determine_stage(s), logs |-> <<>>, raised |-> FALSE]
    [] n = "onboarding" ->
         [s |-> OnboardingNode(s, q), logs |-> <<>>, raised |-> FALSE]
    [] n = "intent_classifier" -> IntentClassifierNode(s, q, a)
    [] n = "statement_parser" ->
         [s |-> StatementParserNode(s, q), logs |-> <<>>, raised |-> FALSE]
    [] n = "budget_analyzer" ->
         [s |-> BudgetAnalyzerNode(s), logs |-> <<>>, raised |-> FALSE]
    [] n = "goal_planner" ->
         [s |-> GoalPlannerNode(s, q), logs |-> <<>>, raised |-> FALSE]
    [] n = "rag_knowledge" ->
         [s |-> RAGKnowledgeNode(s), logs |-> <<>>, raised |-> FALSE]
    [] n \in {"reasoning_engine_intermediate", "reasoning_engine_advanced"} ->
         [s |-> ReasoningEngineNode(s), logs |-> <<>>, raised |-> FALSE]
    [] n = "task_decomposer" ->
         [s |-> TaskDecomposerNode(s), logs |-> <<>>, raised |-> FALSE]
    [] n = "ml_models" ->
         [s |-> MLModelsNode(s, q), logs |-> <<>>, raised |-> FALSE]
    [] n = "action_executor" ->
         [s |-> ActionExecutorNode(s), logs |-> <<>>, raised |-> FALSE]
    [] OTHER ->
         [s |-> generate_response(s, ans),
          logs |-> IF ans = "raise" THEN <<"error">> ELSE <<>>,
          raised |-> FALSE]

FWSuccessors(n, s) ==
  IF n = "determine_stage"
  THEN {IF route_by_stage(s) = "onboarding" THEN "onboarding"
        ELSE "intent_classifier"}
  ELSE IF n = "intent_classifier" THEN {route_by_intent_and_stage(s)}
  ELSE IF n = "ml_models" THEN {should_execute_actions(s)}
  ELSE {e[2] : e \in {d \in FWEdges : d[1] = n}}

\* ------------------------------------------------------------------------
\* SimplifiedFinanceWorkflow.run_sync: groq_client.analyze_financial_query is
\* a coroutine function, so the value run_sync receives at step 1 is a
\* coroutine object and intent_result["intent"] raises TypeError before any
\* stage handler has run
\* ------------------------------------------------------------------------
run_sync_raises == TRUE

\* ------------------------------------------------------------------------
\* The state of the model
\* ------------------------------------------------------------------------
VARIABLES
  prog,        \* the entry point this behaviour goes through
  input,       \* what the caller passed
  build,       \* stream_trace: what the installed graph runtime offers
  pc,          \* the run: "running", "done" (END reached) or "raised"
  fault,       \* why the run raised
  frontier,    \* the nodes scheduled for the current superstep
  ran,         \* the nodes of the superstep that have returned
  st,          \* the State of the run
  executed,    \* the identifiers of the nodes invoked, in order
  failed,      \* the node whose own logic raised, if any
  respWrites,  \* how often state["response"] was assigned
  runs,        \* how often the graph was started for this request
  phase,       \* where the caller (endpoint, stream generator) stands
  events,      \* the events the stream has yielded
  result,      \* what the caller's caller receives
  logs,        \* the log entries written
  classification,  \* the local variables of the last call of the classifier
  sent         \* the messages the generator of /workflow/run/stream has sent

vars == <<prog, input, build, pc, fault, frontier, ran, st, executed, failed,
          respWrites, runs, phase, events, result, logs, classification,
          sent>>

\* stream_trace called by a caller of its own, and by the generator of
\* GET /workflow/run/stream
StreamProgs == {"stream_trace", "sse"}

FPWProgs == {"run_async", "chat"} \cup StreamProgs
FWProgs == {"process_query"}
Progs == FPWProgs \cup FWProgs \cup {"agent", "classifier"}

Builds == {"no_astream_events", "v1_only", "v2"}

BaseInput ==
  [consent_given |-> FALSE, profile_complete |-> FALSE,
   experience |-> "absent", extra |-> "none", execute_action |-> FALSE,
   msgs |-> 0, query |-> [empty |-> FALSE, kws |-> {}],
   has_profile |-> TRUE, profile_consent |-> FALSE, user_stage |-> "NEW",
   demo_email |-> FALSE, is_dict |-> TRUE, context_kind |-> "dict",
   stage_json |-> TRUE]

\* a FinanceState as run_async and stream_trace accept it
FPWInputs ==
  {[BaseInput EXCEPT !.consent_given = c, !.profile_complete = p,
                     !.experience = x, !.extra = e, !.execute_action = a,
                     !.msgs = m] :
     c \in BOOLEAN, p \in BOOLEAN, x \in Experience, e \in ContextExtra,
     a \in BOOLEAN, m \in 0..MaxMsgs}

\* the state chat_with_agent builds
ChatInput == [BaseInput EXCEPT !.consent_given = TRUE,
                               !.profile_complete = TRUE]

\* process_query(user_query, user_profile): the default profile is
\* UserProfile(user_id="anonymous"); system_stage is a member of SystemStage
FWInputs ==
  {[BaseInput EXCEPT !.query = q, !.profile_consent = c, !.user_stage = u,
                     !.demo_email = d, !.stage_json = FALSE] :
     q \in Queries, c \in BOOLEAN, u \in {"NEW", "ONBOARDED"},
     d \in BOOLEAN}

\* IntentClassifierNode called on its own: any object as the state
ClassifierInputs ==
  {[BaseInput EXCEPT !.query = q, !.is_dict = i, !.context_kind = k,
                     !.stage_json = j, !.demo_email = d, !.has_profile = h] :
     q \in Queries, i \in BOOLEAN, k \in {"dict", "None"}, j \in BOOLEAN,
     d \in BOOLEAN, h \in BOOLEAN}

\* the initial_state stream_workflow_run builds: no consent, no profile, an
\* empty context
SSEInput == BaseInput

Inputs(p) ==
  CASE p \in {"run_async", "stream_trace"} -> FPWInputs
    [] p = "sse" -> {SSEInput}
    [] p = "chat" -> {ChatInput}
    [] p = "process_query" -> FWInputs
    [] p = "agent" -> {BaseInput}
    [] OTHER -> ClassifierInputs

\* the State a run starts from
InitialState(in) ==
  [current_stage |-> "started", system_stage |-> "STARTED",
   intent |-> "unknown", intent_enum |-> TRUE, confidence_score |-> 0,
   experience |-> in.experience, extra |-> in.extra,
   context_kind |-> in.context_kind, classification_method |-> None,
   tools_used |-> <<>>, explanations |-> <<>>,
   messages |-> [i \in 1..in.msgs |-> "turn"],
   analysis_results |-> EmptyMap, response |-> "", next_action |-> "",
   consent_given |-> in.consent_given,
   profile_complete |-> in.profile_complete,
   execute_action |-> in.execute_action, error_message |-> None,
   current_node |-> "", is_dict |-> in.is_dict, stage_json |-> in.stage_json,
   has_profile |-> in.has_profile, profile_consent |-> in.profile_consent,
   user_stage |-> in.user_stage, demo_email |-> in.demo_email,
   has_transactions |-> FALSE, executed_actions |-> <<>>,
   suggested_actions |-> <<>>]

EntryPoint(p) ==
  IF p \in FPWProgs THEN {"system_stage_router"}
  ELSE IF p \in FWProgs THEN {"determine_stage"}
  ELSE {}

NoResult == [kind |-> "none", response |-> "", tools_used |-> <<>>]

Init ==
  /\ prog \in Progs
  /\ input \in Inputs(prog)
  /\ build \in (IF prog \in StreamProgs THEN Builds ELSE {"v2"})
  /\ pc = IF prog \in StreamProgs THEN "idle" ELSE "running"
  /\ fault = "none"
  /\ frontier = IF prog \in StreamProgs THEN {} ELSE EntryPoint(prog)
  /\ ran = {}
  /\ st = InitialState(input)
  /\ executed = <<>>
  /\ failed = "none"
  /\ respWrites = 0
  /\ runs = IF prog \in StreamProgs \cup {"agent", "classifier"} THEN 0 ELSE 1
  /\ phase = IF prog \in StreamProgs THEN "open" ELSE "call"
  /\ events = <<>>
  /\ result = NoResult
  /\ logs = <<>>
  /\ classification = NoClassification
  /\ sent = <<>>

\* ------------------------------------------------------------------------
\* One run of a compiled graph
\* ------------------------------------------------------------------------
Range(seq) == {seq[i] : i \in 1..Len(seq)}

\* contents self.groq_llm.invoke(...) answers with in generate_response, or
\* the call raises
FWAnswers == {"advice", "", "raise"}

\* what the event stream of the runtime reports for a node that starts
NodeEvent(n) == [event |-> "on_chain_start", node |-> n, final |-> FALSE]

Emit(n) == IF phase = "native" THEN Append(events, NodeEvent(n)) ELSE events

\* a variant that marks the end event of the fallback as the terminator
SSEMessage_as_done(evt) ==
  [event_line |-> IF evt.event \in {"end", "on_chain_end"} THEN "done"
                  ELSE None,
   payload |-> evt.event]

\* event_gen: payload = {"event": ev_name, "data": data}; the message is
\* "data: " + json.dumps(payload), without an "event:" line
SSEMessage(evt) == [event_line |-> None, payload |-> evt.event]

\* b"event: done\n" + b"data: {\"ok\": true}\n\n"
DoneMessage == [event_line |-> "done", payload |-> "ok"]

\* event_gen sends one message for every event stream_trace yields, at the
\* moment it is yielded
Forward(new) ==
  IF prog = "sse"
  THEN sent \o [i \in 1..(Len(new) - Len(events)) |->
                  SSEMessage(new[Len(events) + i])]
  ELSE sent

\* a node of FinancialPlanningWorkflow is invoked; the handlers catch nothing,
\* so the TypeError of json.dumps in _intent_classifier leaves the node after
\* the node has recorded itself
FPWNodeStep ==
  /\ prog \in FPWProgs
  /\ pc = "running"
  /\ \E n \in frontier \ ran :
       /\ executed' = Append(executed, n)
       /\ events' = Emit(n)
       /\ sent' = Forward(Emit(n))
       /\ IF n = "intent_classifier" /\ analyze_financial_query_raises(st)
          THEN /\ st' = Record(st, n)
               /\ pc' = "raised"
               /\ fault' = "node"
               /\ failed' = n
               /\ UNCHANGED <<ran, respWrites>>
          ELSE /\ \E gi \in (IF n = "intent_classifier" THEN GroqIntents
                             ELSE {"general_inquiry"}),
                     ans \in (IF n = "feedback_collector" THEN ChatAnswers
                              ELSE {"advice"}) :
                    st' = FPWHandler(n, st, gi, ans)
               /\ ran' = ran \cup {n}
               /\ respWrites' = IF n = "feedback_collector"
                                THEN respWrites + 1 ELSE respWrites
               /\ UNCHANGED <<pc, fault, failed>>
  /\ UNCHANGED <<classification, prog, input, build, frontier, runs, phase, result, logs>>

\* a node of FinanceWorkflow is invoked; onboarding and generate_response
\* assign state["response"]
FWNodeStep ==
  /\ prog \in FWProgs
  /\ pc = "running"
  /\ \E n \in frontier \ ran :
       \E a \in (IF n = "intent_classifier" THEN LLMAnswers
                 ELSE {[kind |-> "raise", intent |-> "UNKNOWN",
                        numeric |-> TRUE, conf |-> 0]}),
          ans \in (IF n = "generate_response" THEN FWAnswers ELSE {"advice"}) :
         LET h == FWHandler(n, st, input.query, a, ans)
         IN /\ executed' = Append(executed, n)
            /\ st' = h.s
            /\ logs' = logs \o h.logs
            /\ classification' = IF n = "intent_classifier" THEN h.trace
                                 ELSE classification
            /\ ran' = ran \cup {n}
            /\ respWrites' = IF n \in {"onboarding", "generate_response"}
                             THEN respWrites + 1 ELSE respWrites
  /\ UNCHANGED <<sent, prog, input, build, pc, fault, frontier, failed, runs, phase,
                 events, result>>

\* the end of a superstep: the values the nodes returned are written to the
\* channels and the next nodes are scheduled.  Two nodes of one step that
\* both return the whole state both write the single-writer fields, which
\* the runtime refuses (InvalidUpdateError).
ApplyWrites ==
  /\ pc = "running"
  /\ frontier # {}
  /\ ran = frontier
  /\ IF Cardinality(ran) > 1
     THEN /\ pc' = "raised"
          /\ fault' = "concurrent_update"
          /\ UNCHANGED <<st, frontier, ran>>
     ELSE LET n == CHOOSE x \in ran : TRUE
              merged == IF prog \in FPWProgs THEN FinanceStateReducers(st)
                        ELSE st
              succ == IF prog \in FPWProgs THEN FPWSuccessors(n, merged)
                      ELSE FWSuccessors(n, merged)
          IN /\ st' = merged
             /\ ran' = {}
             /\ frontier' = succ \ {END}
             /\ pc' = IF succ = {END} THEN "done" ELSE "running"
             /\ UNCHANGED fault
  /\ UNCHANGED <<sent, classification, prog, input, build, executed, failed, respWrites, runs,
                 phase, events, result, logs>>

\* ainvoke raises for a reason outside the node handlers (the runtime, the
\* event loop): what the except clauses of the two callers are written for
AinvokeRaises ==
  /\ prog \in {"chat", "process_query"}
  /\ pc = "running"
  /\ ran = {}
  /\ executed # <<>>
  /\ pc' = "raised"
  /\ fault' = "runtime"
  /\ UNCHANGED <<sent, classification, prog, input, build, frontier, ran, st, executed, failed,
                 respWrites, runs, phase, events, result, logs>>

\* ------------------------------------------------------------------------
\* The callers
\* ------------------------------------------------------------------------
\* run_async hands the final state back or lets the exception through;
\* chat_with_agent builds a ChatResponse or raises HTTPException(500);
\* FinanceWorkflow.process_query builds its dict, on an exception the one
\* with the fixed fields
Return ==
  /\ prog \in {"run_async", "chat", "process_query"}
  /\ phase = "call"
  /\ pc \in {"done", "raised"}
  /\ phase' = "returned"
  /\ result' =
       IF pc = "done"
       THEN [kind |-> "composed", response |-> st.response,
             tools_used |-> st.tools_used]
       ELSE IF prog = "run_async"
       THEN [kind |-> "exception", response |-> "", tools_used |-> <<>>]
       ELSE IF prog = "chat"
       THEN [kind |-> "http_500", response |-> "", tools_used |-> <<>>]
       ELSE [kind |-> "composed_error",
             response |-> "I encountered an error", tools_used |-> <<>>]
  /\ logs' = IF pc = "raised" /\ prog # "run_async"
             THEN Append(logs, "error") ELSE logs
  /\ UNCHANGED <<sent, classification, prog, input, build, pc, fault, frontier, ran, st, executed,
                 failed, respWrites, runs, events>>

\* ------------------------------------------------------------------------
\* SimplifiedFinanceWorkflow behind FinanceAgent.process_query
\* ------------------------------------------------------------------------
\* FinanceAgent passes current_stage="Started"
_handle_started_stage(s) ==
  [s EXCEPT !.tools_used = Append(@, "onboarding_analyzer"),
            !.analysis_results = Put(@, "general_status", "welcome"),
            !.next_action = "Explore basic budgeting features"]

\* state.response = result["response"]; state.messages.extend([user, assistant])
_generate_response(s) ==
  [s EXCEPT !.response = "advice",
            !.messages = @ \o <<"user", "assistant">>]

\* run_sync: step 1 subscripts the value of the call that was not awaited
run_sync(s) ==
  IF run_sync_raises
  THEN [s |-> s, raised |-> TRUE]
  ELSE [s |-> _generate_response(_handle_started_stage(s)), raised |-> FALSE]

\* FinanceAgent.process_query: the final state's fields, or on an exception
\* the dict with the fixed fields
AgentProcessQuery ==
  /\ prog = "agent"
  /\ phase = "call"
  /\ LET r == run_sync(st)
     IN /\ st' = r.s
        /\ pc' = IF r.raised THEN "raised" ELSE "done"
        /\ fault' = IF r.raised THEN "run_sync" ELSE "none"
        /\ result' =
             IF r.raised
             THEN [kind |-> "composed_error",
                   response |-> "I encountered an error processing your request",
                   tools_used |-> <<>>]
             ELSE [kind |-> "composed", response |-> r.s.response,
                   tools_used |-> r.s.tools_used]
  /\ runs' = runs + 1
  /\ phase' = "returned"
  /\ UNCHANGED <<sent, classification, prog, input, build, frontier, ran, executed, failed,
                 respWrites, events, logs>>

\* ------------------------------------------------------------------------
\* IntentClassifierNode called on its own
\* ------------------------------------------------------------------------
ClassifierCall ==
  /\ prog = "classifier"
  /\ phase = "call"
  /\ \E a \in LLMAnswers :
       LET h == IntentClassifierNode(st, input.query, a)
       IN /\ st' = h.s
          /\ logs' = h.logs
          /\ classification' = h.trace
          /\ result' = [kind |-> IF h.raised THEN "exception" ELSE "returned",
                        response |-> "", tools_used |-> h.s.tools_used]
  /\ runs' = runs + 1
  /\ phase' = "returned"
  /\ UNCHANGED <<sent, prog, input, build, pc, fault, frontier, ran, executed,
                 failed, respWrites, events>>

\* ------------------------------------------------------------------------
\* stream_trace
\* ------------------------------------------------------------------------
StartEvent == [event |-> "start", node |-> None, final |-> FALSE]
EndEvent == [event |-> "end", node |-> None, final |-> TRUE]
ErrorEvent == [event |-> "error", node |-> None, final |-> FALSE]
GraphEndEvent == [event |-> "on_chain_end", node |-> None, final |-> TRUE]

\* the try block: without astream_events, or when the call with version="v2"
\* raises, control goes to the fallback; otherwise the graph runs and its
\* events are forwarded
StreamOpen ==
  /\ prog \in StreamProgs
  /\ phase = "open"
  /\ IF build = "v2"
     THEN /\ phase' = "native"
          /\ pc' = "running"
          /\ frontier' = EntryPoint(prog)
          /\ runs' = runs + 1
     ELSE /\ phase' = "fallback_pending"
          /\ UNCHANGED <<pc, frontier, runs>>
  /\ UNCHANGED <<sent, classification, prog, input, build, fault, ran, st, executed, failed,
                 respWrites, events, result, logs>>

\* the event stream ends with the run: return
NativeEnd ==
  /\ phase = "native"
  /\ pc = "done"
  /\ events' = Append(events, GraphEndEvent)
  /\ sent' = Forward(Append(events, GraphEndEvent))
  /\ phase' = "closed"
  /\ UNCHANGED <<classification, prog, input, build, pc, fault, frontier, ran, st, executed,
                 failed, respWrites, runs, result, logs>>

\* except Exception: pass
NativeRaises ==
  /\ phase = "native"
  /\ pc = "raised"
  /\ phase' = "fallback_pending"
  /\ UNCHANGED <<sent, classification, prog, input, build, pc, fault, frontier, ran, st, executed,
                 failed, respWrites, runs, events, result, logs>>

\* yield start; await self.run_async(state) on the state object the caller
\* passed: its analysis_results dict is the one the first run wrote into
FallbackStart ==
  /\ phase = "fallback_pending"
  /\ events' = Append(events, StartEvent)
  /\ sent' = Forward(Append(events, StartEvent))
  /\ st' = [InitialState(input) EXCEPT
              !.analysis_results = st.analysis_results]
  /\ pc' = "running"
  /\ fault' = "none"
  /\ failed' = "none"
  /\ frontier' = EntryPoint(prog)
  /\ ran' = {}
  /\ executed' = <<>>
  /\ respWrites' = 0
  /\ runs' = runs + 1
  /\ phase' = "fallback"
  /\ UNCHANGED <<classification, prog, input, build, result, logs>>

\* yield end with the final state
FallbackEnd ==
  /\ phase = "fallback"
  /\ pc = "done"
  /\ events' = Append(events, EndEvent)
  /\ sent' = Forward(Append(events, EndEvent))
  /\ phase' = "closed"
  /\ UNCHANGED <<classification, prog, input, build, pc, fault, frontier, ran, st, executed,
                 failed, respWrites, runs, result, logs>>

\* except Exception as e: yield error
FallbackError ==
  /\ phase = "fallback"
  /\ pc = "raised"
  /\ events' = Append(events, ErrorEvent)
  /\ sent' = Forward(Append(events, ErrorEvent))
  /\ phase' = "closed"
  /\ UNCHANGED <<classification, prog, input, build, pc, fault, frontier, ran, st, executed,
                 failed, respWrites, runs, result, logs>>

\* event_gen behind the loop: the final done event
SSEDone ==
  /\ prog = "sse"
  /\ phase = "closed"
  /\ sent' = Append(sent, DoneMessage)
  /\ phase' = "done_sent"
  /\ UNCHANGED <<classification, prog, input, build, pc, fault, frontier, ran,
                 st, executed, failed, respWrites, runs, events, result, logs>>

\* ------------------------------------------------------------------------
\* The specification
\* ------------------------------------------------------------------------
Next ==
  \/ FPWNodeStep
  \/ FWNodeStep
  \/ ApplyWrites
  \/ AinvokeRaises
  \/ Return
  \/ AgentProcessQuery
  \/ ClassifierCall
  \/ StreamOpen
  \/ NativeEnd
  \/ NativeRaises
  \/ FallbackStart
  \/ FallbackEnd
  \/ FallbackError
  \/ SSEDone

Spec == Init /\ [][Next]_vars

\* ------------------------------------------------------------------------
\* Properties
\* ------------------------------------------------------------------------

\* C1: in every completed run of a compiled graph the final tools_used is
\* exactly the sequence of the identifiers of the nodes that executed, in
\* execution order, one entry per executed node.
C1_ToolsUsedIsExecutedSequence ==
  (prog \in FPWProgs \cup FWProgs /\ pc = "done") => st.tools_used = executed

\* C2: when the logic of a node raises, error_message is set on the state
\* and the run is not aborted (it goes on to END).
C2_NodeFailureIsolated ==
  failed # "none" => (pc # "raised" /\ st.error_message # None)

\* C3: a run given execute_action = true reaches the commit branch
\* (continuous_learning), a run given execute_action = false reaches the
\* suggest-only branch (feedback_collector), and no run executes both.
C3_ExecutionDecisionGate ==
  (prog \in FPWProgs /\ pc = "done") =>
     /\ input.execute_action => "continuous_learning" \in Range(executed)
     /\ ~input.execute_action => "feedback_collector" \in Range(executed)
     /\ ~({"continuous_learning", "feedback_collector"} \subseteq Range(executed))

\* C4: node invocations of a run are strictly sequential: at every point at
\* most one node is scheduled or executing (no node fans out).
C4_StrictlySequential == Cardinality(frontier) <= 1

C6_FallbackStartThenEnd ==
  (/\ prog = "stream_trace"
   /\ phase = "closed"
   /\ \E i \in 1..Len(events) : events[i].event = "start")
    => events = <<StartEvent, EndEvent>>

\* C7: when an exception occurred while the stream generated its events (in
\* the native emission or in the fallback run), the stream has yielded
\* exactly one error event and that event is its last.
C7_StreamFailureYieldsOneError ==
  (/\ prog = "stream_trace"
   /\ phase = "closed"
   /\ \/ build = "v1_only"
      \/ pc = "raised"
      \/ (build = "v2" /\ \E i \in 1..Len(events) : events[i].event = "start"))
    => /\ Len(events) > 0
       /\ events[Len(events)].event = "error"
       /\ Cardinality({i \in 1..Len(events) : events[i].event = "error"}) = 1

\* C8: when an exception escaped the run, the caller still receives a
\* composed response whose text is not empty, and the tools_used it receives
\* hold every node that executed before the failure.
C8_FailureResponseComposed ==
  (/\ prog \in {"chat", "process_query", "agent"}
   /\ phase = "returned"
   /\ pc = "raised")
    => /\ result.kind \in {"composed", "composed_error"}
       /\ result.response # ""
       /\ Range(executed) \subseteq Range(result.tools_used)

\* C9: in every run that reaches END, response has been set exactly once and
\* is not empty in the final state.
C9_ResponseSetOnceNonEmpty ==
  (prog \in FPWProgs \cup FWProgs /\ pc = "done") =>
     (respWrites = 1 /\ st.response # "")

\* C10: IntentClassifierNode.__call__ returns normally for every input, and
\* whenever an error was logged on the classification path the state it
\* returns holds intent "unknown" with confidence 0.
C10_ClassifierNeverRaises ==
  (prog = "classifier" /\ phase = "returned") =>
     /\ result.kind = "returned"
     /\ "error" \in Range(logs) =>
          (st.intent = "unknown" /\ st.confidence_score = 0)


\* ------------------------------------------------------------------------
\* Properties of the intent classifier
\* ------------------------------------------------------------------------
\* the classifier ran its rule phase and the call has handed the state back
ClassifierDone ==
  /\ classification.classified
  /\ \/ prog = "classifier" /\ phase = "returned" /\ result.kind = "returned"
     \/ prog = "process_query" /\ "intent_classifier" \in Range(executed)

\* C11: escalation is monotone: the confidence the classifier returns is
\* never lower than the confidence of its rule phase, for every query and
\* every answer of the model.
C11_EscalationMonotone ==
  ClassifierDone => st.confidence_score >= classification.rule.confidence

\* C12: the result of the model replaces the result of the rule phase exactly
\* when the model was asked and its confidence is strictly greater (on equal
\* confidence the rule result is kept); the recorded classification method is
\* "llm" exactly when it was adopted and "rule_based" otherwise.
C12_AdoptionStrictlyGreater ==
  ClassifierDone =>
    LET c == classification
        adopted == c.invoked /\ c.llm.confidence > c.rule.confidence
        kept == IF adopted THEN c.llm ELSE c.rule
    IN /\ c.method = IF adopted THEN "llm" ELSE "rule_based"
       /\ st.error_message = None =>
            /\ st.intent = FinancialIntent[kept.intent]
            /\ st.confidence_score = kept.confidence
            /\ st.classification_method = c.method

\* the model answered with the confidence of the rule phase and the rule
\* result was kept, in a call that wrote its result
C12_Witness ==
  /\ ClassifierDone
  /\ prog = "classifier"
  /\ st.error_message = None
  /\ classification.invoked
  /\ classification.llm.intent = "TASK_DECOMPOSITION"
  /\ classification.llm.confidence = classification.rule.confidence
  /\ classification.rule.confidence = 3
  /\ st.intent = FinancialIntent[classification.rule.intent]
  /\ st.classification_method = "rule_based"


\* C13: the confidence threshold is 0.5 for a demo user (a profile whose
\* e-mail ends with "@example.com") and 0.7 otherwise, and the model is asked
\* if and only if the confidence of the rule phase is strictly below it.
C13_ThresholdAndEscalation ==
  ClassifierDone =>
    LET demo == input.has_profile /\ input.demo_email
    IN /\ classification.threshold = IF demo THEN 5 ELSE 7
       /\ classification.invoked
            <=> classification.rule.confidence < classification.threshold

\* a demo user whose rule confidence is exactly 0.5: the model is not asked
C13_Witness ==
  /\ ClassifierDone
  /\ input.has_profile
  /\ input.demo_email
  /\ classification.rule.confidence = 5
  /\ classification.threshold = 5
  /\ ~classification.invoked
  /\ st.confidence_score = 5

\* C14: the confidence the classifier writes to the state is always within
\* [0, 1]: the rule score is capped at 1.0, a confidence of the model that is
\* out of range, negative or no number is replaced by 0.0, and the empty-query
\* and error paths write 0.0.
C14_ConfidenceInUnitInterval ==
  (prog \in {"classifier", "process_query"}) =>
     (st.confidence_score >= 0 /\ st.confidence_score <= 10)

\* the model was asked and answered with a confidence above 1.0, and the call
\* wrote the confidence of the rule phase
C14_Witness ==
  /\ ClassifierDone
  /\ prog = "classifier"
  /\ classification.invoked
  /\ classification.llm = [intent |-> "TASK_DECOMPOSITION", confidence |-> 0]
  /\ "warning" \in Range(logs)
  /\ st.error_message = None
  /\ st.confidence_score = classification.rule.confidence


\* the highest score any intent reaches on the query, in tenths
BestScore(q) ==
  LET scores == {IntentScore(IntentOrder[i], q) : i \in 1..Len(IntentOrder)}
  IN CHOOSE m \in scores : \A x \in scores : x <= m

\* C15: in the rule phase the score of an intent is the sum over its matched
\* trigger phrases of (word count x 0.1); a query that matches no trigger
\* phrase yields the general intent with confidence exactly 0.3; otherwise the
\* result is a highest-scoring intent with confidence min(score, 1.0).
C15_RulePhase ==
  ClassifierDone =>
    LET q == input.query
        rule == classification.rule
    IN IF BestScore(q) = 0
       THEN rule = [intent |-> "GENERAL_QUERY", confidence |-> 3]
       ELSE /\ rule.intent \in Range(IntentOrder)
            /\ IntentScore(rule.intent, q) = BestScore(q)
            /\ rule.confidence = IF BestScore(q) <= 10 THEN BestScore(q) ELSE 10

\* a query whose best score exceeds 1.0, a two-word trigger phrase counting
\* twice: the confidence of the rule phase is 1.0 and is what the call wrote
C15_Witness ==
  /\ ClassifierDone
  /\ "emergency fund" \in Matched(input.query)
  /\ IntentScore("GOAL_PLANNING", input.query) = 11
  /\ classification.rule = [intent |-> "GOAL_PLANNING", confidence |-> 10]
  /\ st.intent = "goal_planning"
  /\ st.confidence_score = 10


\* C16: for every query classified on behalf of a demo user the state the
\* classifier returns has confidence_score >= 0.5 or intent "unknown", also
\* when the model collaborator fails.
C16_DemoThresholdApplied ==
  (/\ prog = "classifier"
   /\ phase = "returned"
   /\ result.kind = "returned"
   /\ input.has_profile
   /\ input.demo_email)
    => (st.confidence_score >= 5 \/ st.intent = "unknown")

\* number of entries of a kind in a log
CountOf(kind, log) == Cardinality({i \in 1..Len(log) : log[i] = kind})

\* C17: every call of the classifier emits exactly one classification record,
\* on every path including the empty-query path; it emits the warning-level
\* misclassification record if and only if the final confidence is below the
\* threshold after escalation; the classification record comes first.
C17_ClassificationLogging ==
  (prog = "classifier" /\ phase = "returned" /\ input.is_dict) =>
     /\ CountOf("classification", logs) = 1
     /\ CountOf("misclassification", logs) <= 1
     /\ classification.classified =>
          (CountOf("misclassification", logs) = 1
             <=> (IF classification.method = "llm"
                  THEN classification.llm.confidence
                  ELSE classification.rule.confidence)
                   < classification.threshold)
     /\ \A i, j \in 1..Len(logs) :
          (logs[i] = "classification" /\ logs[j] = "misclassification")
             => i < j


\* ------------------------------------------------------------------------
\* Properties of the stage router and of the execution gate
\* ------------------------------------------------------------------------
\* C18: the stage the entry router chooses is "started" when consent_given is
\* false, whatever profile_complete and the context are; otherwise the basic
\* stage ("mvp") when profile_complete is false; otherwise "advanced" or
\* "intermediate" when context.experience_level says so and the basic stage
\* for any other or a missing value.  It is always one of the four labels.
C18_StageDecisionTable ==
  (prog \in FPWProgs /\ "system_stage_router" \in Range(executed)) =>
     /\ st.current_stage \in WorkflowStage
     /\ st.current_stage =
          IF ~input.consent_given THEN "started"
          ELSE IF ~input.profile_complete THEN "mvp"
          ELSE IF input.experience \in {"advanced", "intermediate"}
               THEN input.experience
          ELSE "mvp"

\* the router sent a consenting user with a complete profile and the
\* experience level "advanced" to the advanced stage
C18_Witness ==
  /\ prog \in FPWProgs
  /\ executed = <<"system_stage_router">>
  /\ input.consent_given
  /\ input.profile_complete
  /\ input.experience = "advanced"
  /\ st.current_stage = "advanced"
  /\ frontier = {"task_decomposer"}

\* the states that agree with s on consent_given, profile_complete and the
\* context and differ in what the caller supplied for the other fields
CallerVariants(s) ==
  {[s EXCEPT !.current_stage = c, !.intent = i, !.tools_used = t,
             !.execute_action = x] :
     c \in WorkflowStage, i \in {"unknown", "budget_analysis"},
     t \in {<<>>, <<"system_stage_router">>}, x \in BOOLEAN}

\* C19: the router is deterministic in consent_given, profile_complete and
\* the context: evaluated on any state that agrees on them it chooses the
\* stage this run's router chose, whatever current_stage, intent, tools_used
\* and execute_action the caller supplied, and the edge taken after the
\* router depends only on that stage.
C19_RouterDeterministic ==
  (prog \in FPWProgs /\ "system_stage_router" \in Range(executed)) =>
     \A alt \in CallerVariants(InitialState(input)) :
        /\ _system_stage_router(alt).current_stage = st.current_stage
        /\ FPWSuccessors("system_stage_router",
                         FinanceStateReducers(_system_stage_router(alt)))
             = {StageTargets[st.current_stage]}

\* a run whose caller supplied execute_action = true and whose router chose
\* the intermediate stage and dispatched to it
C19_Witness ==
  /\ prog \in FPWProgs
  /\ executed = <<"system_stage_router">>
  /\ input.execute_action
  /\ st.current_stage = "intermediate"
  /\ frontier = {"rag_knowledge_retriever"}
  /\ \E alt \in CallerVariants(InitialState(input)) :
        alt.current_stage = "advanced"


\* C20: whenever the execution decision gate is evaluated, the execute_action
\* it reads equals (stage = advanced and consent_given) of the current state,
\* whatever execute_action the caller supplied: the commit branch is taken
\* only in runs whose stage is advanced and whose user has consented.
C20_GateReadsStageAndConsent ==
  /\ (prog \in FPWProgs /\ "system_stage_router" \in Range(executed)) =>
        LET read == _action_executor(st)
            allowed == st.current_stage = "advanced" /\ st.consent_given
        IN /\ read.execute_action = allowed
           /\ _check_execution_decision(read) = "execute" <=> allowed
           /\ FPWSuccessors("action_executor", read) =
                {IF allowed THEN "continuous_learning"
                 ELSE "feedback_collector"}
  /\ (prog \in FPWProgs /\ "continuous_learning" \in Range(executed)) =>
        (st.current_stage = "advanced" /\ st.consent_given)
  /\ (prog = "process_query"
      /\ "action_executor" \in frontier \cup Range(executed)) =>
        /\ st.system_stage = "ADVANCED"
        /\ st.has_profile
        /\ st.profile_consent

\* a run of FinanceWorkflow whose gate chose the commit branch and whose
\* action_executor has run
C20_Witness ==
  /\ prog = "process_query"
  /\ Len(executed) > 1
  /\ executed[Len(executed) - 1] = "ml_models"
  /\ executed[Len(executed)] = "action_executor"
  /\ st.system_stage = "ADVANCED"
  /\ st.profile_consent
  /\ "action_executor" \in Range(st.tools_used)


\* ------------------------------------------------------------------------
\* Properties of the action executor, of the graph and of the transports
\* ------------------------------------------------------------------------
ActionStatuses == {"completed", "simulated", "failed", "not_supported"}

MoneyActions ==
  {"savings_transfers", "portfolio_rebalancing", "bill_payments",
   "investment_purchases"}

\* C21: every action result ActionExecutorNode records carries a status in
\* {completed, simulated, failed, not_supported}; a result is "completed" only
\* if its type is notifications or report_generation; an action that touches
\* money or portfolios is never recorded as "completed".
C21_ActionStatuses ==
  /\ \A i \in 1..Len(st.executed_actions) :
        LET r == st.executed_actions[i]
        IN /\ r.status \in ActionStatuses
           /\ r.status = "completed"
                => r.type \in {"notifications", "report_generation"}
           /\ r.type \notin MoneyActions
  /\ \A type \in ActionTypes \cup {"other"}, fails \in BOOLEAN :
        LET r == _execute_action(type, fails)
        IN /\ r.status \in ActionStatuses
           /\ r.status = "completed"
                => type \in {"notifications", "report_generation"}
           /\ type \in MoneyActions => r.status # "completed"

\* a run of FinanceWorkflow whose action executor completed the report and
\* left the rebalancing of the portfolio as a suggestion
C21_Witness ==
  /\ prog = "process_query"
  /\ "action_executor" \in Range(executed)
  /\ st.executed_actions =
       <<[type |-> "report_generation", status |-> "completed"]>>
  /\ st.suggested_actions = <<"portfolio_rebalancing">>


\* C22: every key of analysis_results is written by one node: across the
\* steps of a run an entry a node has written is never overwritten, modified
\* or removed by a later node, and entries appear only when a node executes.
C22_KeyOwnership ==
  [][runs' = runs =>
       /\ \A k \in DOMAIN st.analysis_results :
             /\ k \in DOMAIN st'.analysis_results
             /\ st'.analysis_results[k] = st.analysis_results[k]
       /\ DOMAIN st'.analysis_results # DOMAIN st.analysis_results
            => executed' # executed]_vars

\* a run in which three nodes in a row have each stored an entry
C22_Witness ==
  /\ prog \in FPWProgs
  /\ executed = <<"system_stage_router", "onboarding_node",
                  "store_consent_profile", "intent_classifier">>
  /\ {"onboarding", "profile_status", "intent_analysis"}
       \subseteq DOMAIN st.analysis_results
  /\ st.analysis_results["onboarding"] = "guidance"


\* ------------------------------------------------------------------------
\* Two requests of chat_with_agent served concurrently by the one
\* finance_workflow instance: the node steps of the two runs interleave
\* ------------------------------------------------------------------------
Requests == {1, 2}

\* what the collaborators answer during one request (the intent derived from
\* its query, the content of the chat completion)
RequestInputs ==
  {[in |-> ChatInput, gi |-> gi, ans |-> ans] :
     gi \in GroqIntents, ans \in ChatAnswers}

\* a variant in which the requests are handed one state object
StateOf_shared(r) == 1

\* state = {...}: every request builds the dict of its own run
StateOf(r) == r

PairInit ==
  /\ prog = "pair"
  /\ input \in [Requests -> RequestInputs]
  /\ st = [o \in Requests |-> InitialState(ChatInput)]
  /\ pc = [r \in Requests |-> "running"]
  /\ frontier = [r \in Requests |-> EntryPoint("chat")]
  /\ ran = [r \in Requests |-> {}]
  /\ executed = [r \in Requests |-> <<>>]
  /\ build = "v2"
  /\ fault = "none"
  /\ failed = "none"
  /\ respWrites = 0
  /\ runs = 2
  /\ phase = "call"
  /\ events = <<>>
  /\ result = NoResult
  /\ logs = <<>>
  /\ classification = NoClassification
  /\ sent = <<>>

\* a node of the run of request r is invoked on the state of that run
PairNodeStep ==
  /\ prog = "pair"
  /\ \E r \in Requests :
       /\ pc[r] = "running"
       /\ \E n \in frontier[r] \ ran[r] :
            /\ st' = [st EXCEPT ![StateOf(r)] =
                        FPWHandler(n, @, input[r].gi, input[r].ans)]
            /\ executed' = [executed EXCEPT ![r] = Append(@, n)]
            /\ ran' = [ran EXCEPT ![r] = @ \cup {n}]
  /\ UNCHANGED <<sent, classification, prog, input, build, pc, fault, frontier,
                 failed, respWrites, runs, phase, events, result, logs>>

\* the end of a superstep of the run of request r
PairApplyWrites ==
  /\ prog = "pair"
  /\ \E r \in Requests :
       /\ pc[r] = "running"
       /\ frontier[r] # {}
       /\ ran[r] = frontier[r]
       /\ LET n == CHOOSE x \in ran[r] : TRUE
              merged == FinanceStateReducers(st[StateOf(r)])
              succ == FPWSuccessors(n, merged)
          IN /\ st' = [st EXCEPT ![StateOf(r)] = merged]
             /\ ran' = [ran EXCEPT ![r] = {}]
             /\ frontier' = [frontier EXCEPT ![r] = succ \ {END}]
             /\ pc' = [pc EXCEPT ![r] = IF succ = {END} THEN "done"
                                        ELSE "running"]
  /\ UNCHANGED <<sent, classification, prog, input, build, fault, executed, failed,
                 respWrites, runs, phase, events, result, logs>>

PairNext == PairNodeStep \/ PairApplyWrites

SpecPair == PairInit /\ [][PairNext]_vars

\* the final State of a request that is served alone: node after node from
\* the entry point to END
RECURSIVE RunFrom(_, _, _)
RunFrom(n, s, req) ==
  IF n = END THEN s
  ELSE LET merged == FinanceStateReducers(FPWHandler(n, s, req.gi, req.ans))
       IN RunFrom(CHOOSE x \in FPWSuccessors(n, merged) : TRUE, merged, req)

RunAlone(req) == RunFrom("system_stage_router", InitialState(req.in), req)

\* C23: runs are independent: for every interleaving of the node steps of two
\* concurrent requests on the shared workflow instance, the final State of
\* each run is the final State the run has when it is executed alone.
C23_RunIndependence ==
  \A r \in Requests :
     pc[r] = "done" => st[StateOf(r)] = RunAlone(input[r])

\* both runs have ended after their steps were interleaved (the second run
\* started before the first ended) and their final States differ
C23_Witness ==
  /\ pc = [r \in Requests |-> "done"]
  /\ executed[1] = executed[2]
  /\ Len(executed[1]) = 7
  /\ st[StateOf(1)].response # st[StateOf(2)].response
  /\ st[StateOf(1)].intent # st[StateOf(2)].intent
  /\ st[StateOf(1)] = RunAlone(input[1])


\* C24: the graph is acyclic, so every run whose node handlers all return
\* reaches END after finitely many node steps, for every stage and every
\* outcome of the predicates: no run stops anywhere else.
C24_EveryRunReachesEnd ==
  (prog \in FPWProgs \cup FWProgs /\ pc = "raised")
     => fault \in {"node", "runtime"}


\* C25: the generator of /workflow/run/stream sends exactly one message per
\* workflow event, in the order of the events, and then exactly one done
\* message, which is the last message of the stream and is told apart from
\* the others by its "event: done" line; nothing follows it.
C25_OneMessagePerEventThenDone ==
  prog = "sse" =>
     LET n == Len(events)
     IN /\ Len(sent) = IF phase = "done_sent" THEN n + 1 ELSE n
        /\ \A i \in 1..n :
              /\ sent[i].event_line = None
              /\ sent[i].payload = events[i].event
        /\ phase = "done_sent" => sent[n + 1].event_line = "done"

\* a stream that forwarded the events of the nodes of a run and was closed
\* with the done message
C25_Witness ==
  /\ prog = "sse"
  /\ phase = "done_sent"
  /\ Len(events) > 2
  /\ \E i \in 1..Len(events) : events[i].event = "on_chain_start"
  /\ sent[Len(sent)] = DoneMessage
  /\ Len(sent) = Len(events) + 1


\* C26: the router dispatches into one sub-path and a run executes only the
\* nodes of the sub-path of its stage: a run dispatched as intermediate never
\* executes ml_models, action_executor or continuous_learning, and a run
\* dispatched as advanced never executes finance_tools or notification_sender.
C26_StageSubPaths ==
  (prog \in FPWProgs /\ "system_stage_router" \in Range(executed)) =>
     /\ Len(executed) > 1 => executed[2] = StageTargets[st.current_stage]
     /\ st.current_stage = "intermediate" =>
          Range(executed) \cap {"ml_models", "action_executor",
                                "continuous_learning"} = {}
     /\ st.current_stage = "advanced" =>
          Range(executed) \cap {"finance_tools", "notification_sender"} = {}


\* the node the routing table of the claim names for an intent (by its
\* value), a stage and a confidence
IntentStageTable(s) ==
  IF s.confidence_score < 6 THEN "generate_response"
  ELSE IF s.system_stage = "MVP"
  THEN (IF s.intent \in {"budgeting", "basic_insights"} THEN "statement_parser"
        ELSE IF s.intent = "goal_planning" THEN "goal_planner"
        ELSE "budget_analyzer")
  ELSE IF s.system_stage = "INTERMEDIATE"
  THEN (IF s.intent \in {"tax_analysis", "market_data"} THEN "rag_knowledge"
        ELSE "reasoning_engine_intermediate")
  ELSE IF s.system_stage = "ADVANCED"
  THEN (IF s.intent = "task_decomposition" THEN "task_decomposer"
        ELSE "reasoning_engine_advanced")
  ELSE "generate_response"

\* C27: FinanceWorkflow routes the state IntentClassifierNode produced by
\* intent and stage: below 0.6 to generate_response; in the MVP stage
\* budgeting and basic_insights to statement_parser, goal_planning to
\* goal_planner, anything else to budget_analyzer; in the intermediate stage
\* tax_analysis and market_data to rag_knowledge, else
\* reasoning_engine_intermediate; in the advanced stage task_decomposition to
\* task_decomposer, else reasoning_engine_advanced.
C27_IntentStageRouting ==
  (/\ prog = "process_query"
   /\ pc = "running"
   /\ executed # <<>>
   /\ executed[Len(executed)] = "intent_classifier"
   /\ ran = {})
    => frontier = {IntentStageTable(st)}


\* C28: one stream request executes the graph at most once: in every
\* behaviour of stream_trace, also when the native emission fails after
\* events were forwarded, the graph is started once and no event that was
\* delivered is followed by a start event.
C28_GraphExecutedOnce ==
  prog \in StreamProgs =>
     /\ runs <= 1
     /\ \A i \in 1..Len(events) : events[i].event = "start" => i = 1

\* add_conditional_edges of FinanceWorkflow: the labels registered for the
\* three conditional edges and their targets
FWStageTargets ==
  [l \in {"onboarding", "mvp", "intermediate", "advanced"} |->
     IF l = "onboarding" THEN "onboarding" ELSE "intent_classifier"]

FWIntentTargets ==
  [l \in {"budget_analyzer", "goal_planner", "statement_parser",
          "rag_knowledge", "reasoning_engine_intermediate",
          "task_decomposer", "reasoning_engine_advanced",
          "generate_response"} |-> l]

FWExecutionTargets == [l \in {"action_executor", "generate_response"} |-> l]

\* the node whose conditional edge is evaluated next: the only node of the
\* superstep has returned
EdgeEvaluatedAfter(n) == pc = "running" /\ frontier = {n} /\ ran = {n}

\* C29: no graph configuration error is reachable: whenever a conditional
\* edge is evaluated (stage dispatch, routing by intent and stage, execution
\* decision), the label its predicate returns is registered for that edge,
\* in both workflows and for every initial state of a caller.
C29_LabelsRegistered ==
  /\ (prog \in FPWProgs /\ EdgeEvaluatedAfter("system_stage_router")) =>
        _route_by_stage(FinanceStateReducers(st)) \in DOMAIN StageTargets
  /\ (prog \in FPWProgs /\ EdgeEvaluatedAfter("action_executor")) =>
        _check_execution_decision(FinanceStateReducers(st))
           \in DOMAIN ExecutionTargets
  /\ (prog \in FWProgs /\ EdgeEvaluatedAfter("determine_stage")) =>
        /\ route_by_stage(st) \in DOMAIN FWStageTargets
        /\ FWSuccessors("determine_stage", st)
             = {FWStageTargets[route_by_stage(st)]}
  /\ (prog \in FWProgs /\ EdgeEvaluatedAfter("intent_classifier")) =>
        route_by_intent_and_stage(st) \in DOMAIN FWIntentTargets
  /\ (prog \in FWProgs /\ EdgeEvaluatedAfter("ml_models")) =>
        should_execute_actions(st) \in DOMAIN FWExecutionTargets

\* the stage dispatch of FinanceWorkflow is evaluated for a user in the
\* advanced stage: the label is the value of the stage
C29_Witness ==
  /\ prog = "process_query"
  /\ EdgeEvaluatedAfter("determine_stage")
  /\ st.system_stage = "ADVANCED"
  /\ route_by_stage(st) = "advanced"

\* C30: a run never grants consent on behalf of the user: consent_given in
\* the State of the run is the value the caller supplied, and no analysis
\* node (intent_classifier onward) executes in a run whose input had
\* consent_given = false.
C30_ConsentOnlyRead ==
  prog \in FPWProgs =>
     /\ st.consent_given = input.consent_given
     /\ ~input.consent_given => "intent_classifier" \notin Range(executed)

====
